---------------------------- MODULE Spec2Model ----------------------------
(***************************************************************************)
(* lowcharts: the fixed-width histogram (src/src/histogram.rs).            *)
(*                                                                         *)
(* A Histogram owns `size` buckets of width `step` starting at stats.min,  *)
(* counts samples into them (add / load) and is rendered as a bar chart    *)
(* (Display::fmt -> HistWriter::write).                                    *)
(*                                                                         *)
(* Numbers.  Bucket bounds, samples, min, max and step are f64 in the      *)
(* source.  Here an f64 is an integer-valued binary floating point number  *)
(* whose significand holds Precision bits (53 in the source), and every    *)
(* arithmetic result is rounded to nearest, ties to even, as IEEE 754      *)
(* does.  usize is an unsigned integer of UsizeBits bits (64 in the        *)
(* source).                                                                *)
(***************************************************************************)
EXTENDS Integers, Sequences, FiniteSets

VARIABLES
    pc,        \* "new": before Histogram::new; "run": a histogram exists; "panic": the thread panicked
    hist,      \* the Histogram: [vec, max, step, top, last, min]  (min is stats.min)
    out,       \* what the last Display::fmt since the last add/load produced
    first,     \* what the first Display::fmt since the last add/load produced
    inrange,   \* history: how many samples v with min <= v <= max were passed to add
    dropped    \* history: whether some sample outside [min, max] was passed to add

vars == <<pc, hist, out, first, inrange, dropped>>

-----------------------------------------------------------------------------
(* Bounds of the model *)

Precision == 3      \* bits of an f64 significand in the model
UsizeBits == 8      \* bits of a usize in the model
MaxSize == 2        \* the largest bucket count `size` given to Histogram::new
MaxAdds == 3        \* the most samples counted into one histogram
MaxSample == 16     \* samples range over the f64 in -SampleBelow .. MaxSample
SampleBelow == 3
MaxTop == 12        \* SpecRender: the most samples loaded before rendering

(* Program constants *)

EXTRA_CHARS == 10       \* const EXTRA_CHARS in get_max_bar_len
DEFAULT_WIDTH == 110    \* f.width().unwrap_or(110)
FALLBACK_BAR_LEN == 75  \* get_max_bar_len when the width is too small

-----------------------------------------------------------------------------
(* f64 *)

Pow2(n) == 2 ^ n

Max(a, b) == IF a >= b THEN a ELSE b

Min(a, b) == IF a <= b THEN a ELSE b

RECURSIVE DropBits(_)
\* how many low bits of the integer t >= 0 do not fit in the significand
DropBits(t) == IF t < Pow2(Precision) THEN 0 ELSE 1 + DropBits(t \div 2)

\* m or m + 1: round to nearest, ties to even, given the remainder rem of `unit`
NearestEven(m, rem, unit) ==
    IF 2 * rem < unit THEN m
    ELSE IF 2 * rem > unit THEN m + 1
    ELSE IF m % 2 = 0 THEN m ELSE m + 1

\* the f64 nearest to the integer x
f64_round(x) ==
    LET a == IF x < 0 THEN -x ELSE x
        g == Pow2(DropBits(a))
        r == NearestEven(a \div g, a % g, g) * g
    IN  IF x < 0 THEN -r ELSE r

f64_add(a, b) == f64_round(a + b)

f64_sub(a, b) == f64_round(a - b)

f64_mul(a, b) == f64_round(a * b)

RECURSIVE ScaleUp(_, _)
\* the least k with n * 2^k / d >= 2^(Precision - 1), for n > 0 and d > 0
ScaleUp(n, d) ==
    IF n \div d >= Pow2(Precision - 1) THEN 0 ELSE 1 + ScaleUp(2 * n, d)

\* n / d for n >= 0: a finite quotient is num / 2^exp (negative when neg)
f64_div(n, d) ==
    IF d = 0
    THEN [kind |-> IF n = 0 THEN "nan" ELSE "inf", num |-> 0, exp |-> 0, neg |-> FALSE]
    ELSE IF n = 0
    THEN [kind |-> "num", num |-> 0, exp |-> 0, neg |-> d < 0]
    ELSE LET a == IF d < 0 THEN -d ELSE d
             k == ScaleUp(n, a)
             s == n * Pow2(k)
             g == Pow2(DropBits(s \div a))
             m == s \div (a * g)
             r == NearestEven(m, s - m * a * g, a * g) * g
         IN  [kind |-> "num", num |-> r, exp |-> k, neg |-> d < 0]

UsizeMax == Pow2(UsizeBits) - 1

\* `q as usize`: truncates, saturates, and takes NaN to 0
as_usize(q) ==
    IF q.kind = "nan" THEN 0
    ELSE IF q.kind = "inf" THEN UsizeMax
    ELSE IF q.neg THEN 0
    ELSE Min(q.num \div Pow2(q.exp), UsizeMax)

\* `a - b` on usize in a release build (a debug build panics when a < b)
usize_wrapping_sub(a, b) == (a - b) % Pow2(UsizeBits)

\* `n as f64` for a usize n
usize_as_f64(n) == f64_round(n)

IsF64(k) == f64_round(k) = k

-----------------------------------------------------------------------------
(* Bucket and Histogram *)

Bucket_new(start, end) == [start |-> start, end |-> end, count |-> 0]

Bucket_inc(b) == [b EXCEPT !.count = @ + 1]

RECURSIVE PushBuckets(_, _, _)
\* the loop of Histogram::new: `size` times push lower..lower + step; lower += step
PushBuckets(lower, step, size) ==
    IF size = 0 THEN << >>
    ELSE <<Bucket_new(lower, f64_add(lower, step))>>
             \o PushBuckets(f64_add(lower, step), step, size - 1)

Histogram_new(size, step, stats_min) ==
    [ vec  |-> PushBuckets(stats_min, step, size),
      max  |-> f64_add(stats_min, f64_mul(step, usize_as_f64(size))),
      step |-> step,
      top  |-> 0,
      last |-> usize_wrapping_sub(size, 1),
      min  |-> stats_min ]

NoSlot == -1    \* Option::None

\* find_slot with `n >= self.max` for `n > self.max`: a sample equal to max is dropped
Histogram_find_slot_excl_max(h, n) ==
    IF n < h.min \/ n >= h.max
    THEN NoSlot
    ELSE Min(as_usize(f64_div(f64_sub(n, h.min), h.step)), h.last)

Histogram_find_slot(h, n) ==
    IF n < h.min \/ n > h.max
    THEN NoSlot
    ELSE Min(as_usize(f64_div(f64_sub(n, h.min), h.step)), h.last)

\* add with top updated from the count before inc()
Histogram_add_stale_top(h, n) ==
    LET slot == Histogram_find_slot(h, n) IN
    IF slot = NoSlot THEN [ok |-> TRUE, h |-> h]
    ELSE IF slot >= Len(h.vec) THEN [ok |-> FALSE, h |-> h]
    ELSE LET b == Bucket_inc(h.vec[slot + 1])
         IN  [ok |-> TRUE,
              h  |-> [h EXCEPT !.vec[slot + 1] = b,
                               !.top = Max(@, h.vec[slot + 1].count)]]

\* the histogram after add(n), and whether indexing self.vec panicked
Histogram_add(h, n) ==
    LET slot == Histogram_find_slot(h, n) IN
    IF slot = NoSlot THEN [ok |-> TRUE, h |-> h]
    ELSE IF slot >= Len(h.vec) THEN [ok |-> FALSE, h |-> h]
    ELSE LET b == Bucket_inc(h.vec[slot + 1])
         IN  [ok |-> TRUE,
              h  |-> [h EXCEPT !.vec[slot + 1] = b, !.top = Max(@, b.count)]]

RECURSIVE Histogram_load(_, _)
Histogram_load(h, values) ==
    IF values = << >> THEN [ok |-> TRUE, h |-> h]
    ELSE LET r == Histogram_add(h, Head(values))
         IN  IF r.ok THEN Histogram_load(r.h, Tail(values)) ELSE r

RECURSIVE SumCounts(_)
SumCounts(vec) == IF vec = << >> THEN 0 ELSE Head(vec).count + SumCounts(Tail(vec))

RECURSIVE MaxCount(_)
MaxCount(vec) == IF vec = << >> THEN 0 ELSE Max(Head(vec).count, MaxCount(Tail(vec)))

-----------------------------------------------------------------------------
(* Display::fmt and HistWriter *)

RECURSIVE NumDigits(_)
\* how many characters `{}` prints for the usize n
NumDigits(n) == IF n < 10 THEN 1 ELSE 1 + NumDigits(n \div 10)

\* format!("{:.3}", x).len() for an integer-valued x: sign, digits, ".000"
Fmt3Len(x) == IF x < 0 THEN 1 + NumDigits(-x) + 4 ELSE NumDigits(x) + 4

RECURSIVE CeilLog10From(_, _)
CeilLog10From(n, c) == IF 10 ^ c >= n THEN c ELSE CeilLog10From(n, c + 1)

\* (n as f64).log10().ceil() as usize: log10(0) is -inf, which the cast takes to 0
CeilLog10(n) == IF n = 0 THEN 0 ELSE CeilLog10From(usize_as_f64(n), 0)

HistWriter_get_width(h) == Max(Fmt3Len(h.min), Fmt3Len(h.max))

HistWriter_get_max_bar_len(width, fixed_width) ==
    IF width < fixed_width + EXTRA_CHARS
    THEN FALLBACK_BAR_LEN
    ELSE width - fixed_width - EXTRA_CHARS

\* one line "[{start:width.3} .. {end:width.3}] [{count:width_count}] {bar}":
\* the numbers printed, how many characters each takes, and the bar's glyphs
HistWriter_write_bucket(bucket, divisor, width, width_count) ==
    [ start     |-> bucket.start,
      start_len |-> Max(width, Fmt3Len(bucket.start)),
      end       |-> bucket.end,
      end_len   |-> Max(width, Fmt3Len(bucket.end)),
      count     |-> bucket.count,
      count_len |-> Max(width_count, NumDigits(bucket.count)),
      bar       |-> bucket.count \div divisor ]

\* ok is FALSE when `hist.top / get_max_bar_len(..)` divides by zero (a panic);
\* text is the header line (the divisor) followed by the bucket lines
HistWriter_write(width, h) ==
    LET width_range == HistWriter_get_width(h)
        width_count == Max(CeilLog10(h.top), 1)
        max_bar_len == HistWriter_get_max_bar_len(width, width_range + width_count)
        layout == [width_range |-> width_range, width_count |-> width_count,
                   max_bar_len |-> max_bar_len]
    IN  IF max_bar_len = 0
        THEN [ok |-> FALSE, width |-> width, layout |-> layout, text |-> << >>]
        ELSE LET divisor == Max(1, h.top \div max_bar_len)
             IN  [ok |-> TRUE, width |-> width, layout |-> layout,
                  text |-> <<[divisor |-> divisor]>> \o
                           [i \in 1..Len(h.vec) |->
                              HistWriter_write_bucket(h.vec[i], divisor,
                                                      width_range, width_count)]]

\* f.width(): None or Some(w)
NoWidth == [some |-> FALSE, w |-> 0]

SomeWidth(w) == [some |-> TRUE, w |-> w]

\* fmt that clears top once the chart is written
Histogram_fmt_clears_top(h, fwidth) ==
    [h |-> [h EXCEPT !.top = 0],
     out |-> HistWriter_write(IF fwidth.some THEN fwidth.w ELSE DEFAULT_WIDTH, h)]

\* fmt(&self, f): the histogram afterwards (borrowed immutably) and what
\* HistWriter::write wrote after the stats (whose Display is not part of this file)
Histogram_fmt(h, fwidth) ==
    [h |-> h,
     out |-> HistWriter_write(IF fwidth.some THEN fwidth.w ELSE DEFAULT_WIDTH, h)]

-----------------------------------------------------------------------------
(* Inputs *)

MinWidth == 16
MaxWidth == 18

Sizes == 1..MaxSize

MinVals == {-2, 0, 4}       \* stats.min

StepVals == {1, 3, 5}       \* step > 0

BadStepVals == {-1, 0}      \* step <= 0

\* the finite f64 given to add and load
Samples == {k \in -SampleBelow..MaxSample : IsF64(k)}

LoadLens == {0, 2}          \* lengths of the slices given to load

Batches == UNION {[1..n -> Samples] : n \in LoadLens}

FmtWidths == {NoWidth} \cup {SomeWidth(w) : w \in MinWidth..MaxWidth}

Profiles == {"debug", "release"}

InRange(h, v) == h.min <= v /\ v <= h.max

RECURSIVE CountInRange(_, _)
CountInRange(h, values) ==
    IF values = << >> THEN 0
    ELSE (IF InRange(h, Head(values)) THEN 1 ELSE 0) + CountInRange(h, Tail(values))

NoHist == [vec |-> << >>, max |-> 0, step |-> 0, top |-> 0, last |-> 0, min |-> 0]

-----------------------------------------------------------------------------
(* The state machine *)

\* after Histogram::new(size, step, stats) with size >= 1 and a step > 0
Init ==
    /\ pc = "run"
    /\ \E size \in Sizes, step \in StepVals, m \in MinVals :
           hist = Histogram_new(size, step, m)
    /\ out = << >>
    /\ first = << >>
    /\ inrange = 0
    /\ dropped = FALSE

\* what a call of add or load leaves: r is Histogram_load's result
Counted(r, values) ==
    /\ inrange' = inrange + CountInRange(hist, values)
    /\ dropped' = (dropped \/ CountInRange(hist, values) < Len(values))
    /\ hist' = r.h
    /\ pc' = IF r.ok THEN "run" ELSE "panic"
    /\ out' = IF r.h = hist THEN out ELSE << >>
    /\ first' = IF r.h = hist THEN first ELSE << >>

Add(n) ==
    /\ pc = "run"
    /\ SumCounts(hist.vec) < MaxAdds
    /\ Counted(Histogram_add(hist, n), <<n>>)

Load(values) ==
    /\ pc = "run"
    /\ SumCounts(hist.vec) + Len(values) <= MaxAdds
    /\ Counted(Histogram_load(hist, values), values)

Render(fwidth) ==
    /\ pc = "run"
    /\ UNCHANGED <<inrange, dropped>>
    /\ LET r == Histogram_fmt(hist, fwidth) IN
         /\ hist' = r.h
         /\ out' = <<r.out>>
         /\ first' = IF first = << >>
                     THEN <<[out |-> r.out, others |-> FALSE]>>
                     ELSE <<[first[1] EXCEPT
                               !.others = @ \/ r.out.width # first[1].out.width]>>
         /\ pc' = IF r.out.ok THEN "run" ELSE "panic"

Next ==
    \/ \E n \in Samples : Add(n)
    \/ \E values \in Batches : Load(values)
    \/ \E fwidth \in FmtWidths : Render(fwidth)

Spec == Init /\ [][Next]_vars

(* Construction from any arguments, in a debug or a release build *)

InitNew ==
    /\ pc = "new"
    /\ hist = NoHist
    /\ out = << >>
    /\ first = << >>
    /\ inrange = 0
    /\ dropped = FALSE

\* Histogram::new(size, step, stats): `size - 1` overflows for size = 0, which
\* panics in a debug build and wraps in a release build
New(size, step, m, profile) ==
    /\ pc = "new"
    /\ IF size < 1 /\ profile = "debug"
       THEN pc' = "panic" /\ hist' = hist
       ELSE pc' = "run" /\ hist' = Histogram_new(size, step, m)
    /\ UNCHANGED <<out, first, inrange, dropped>>

NextNew ==
    \/ \E size \in 0..MaxSize, step \in StepVals \cup BadStepVals,
          m \in MinVals, profile \in Profiles : New(size, step, m, profile)
    \/ Next

SpecNew == InitNew /\ [][NextNew]_vars

(* Rendering a histogram that holds up to MaxTop samples *)

InitRender ==
    /\ pc = "run"
    /\ \E size \in Sizes, step \in StepVals, m \in MinVals, c \in 0..MaxTop :
           /\ hist = Histogram_load(Histogram_new(size, step, m), [i \in 1..c |-> m]).h
           /\ inrange = c
    /\ out = << >>
    /\ first = << >>
    /\ dropped = FALSE

NextRender == \E fwidth \in FmtWidths : Render(fwidth)

SpecRender == InitRender /\ [][NextRender]_vars

-----------------------------------------------------------------------------
(* Properties *)

Counts(h) == [i \in 1..Len(h.vec) |-> h.vec[i].count]

Bounds(h) == [i \in 1..Len(h.vec) |-> <<h.vec[i].start, h.vec[i].end>>]

\* C1: in every state reachable by add and load, top is the largest bucket
\* count (0 for a fresh histogram), and so top never decreases.
C1_TopIsMaxCount ==
    /\ [](hist.top = MaxCount(hist.vec))
    /\ [][hist'.top >= hist.top]_vars

C1_Witness ==
    /\ Len(hist.vec) = 2
    /\ hist.top = 2
    /\ \E i \in 1..2 : hist.vec[i].count = 1

ClaimedIndex(h, v) ==
    Max(0, Min(as_usize(f64_div(f64_sub(v, h.min), h.step)), Len(h.vec) - 1))

\* C3: for min <= v <= max, add(v) increments the bucket at index
\* floor((v - min) / step) clamped to [0, size - 1]; for v < max that is the
\* bucket whose interval [start, end) contains v, and v = max goes to the last.
C3_SlotContainsSample ==
    [][\A v \in Samples :
         (Add(v) /\ InRange(hist, v)) =>
            LET i == ClaimedIndex(hist, v) + 1 IN
            /\ hist'.vec[i].count = hist.vec[i].count + 1
            /\ (v < hist.max => hist.vec[i].start <= v /\ v < hist.vec[i].end)
            /\ (v = hist.max => i = Len(hist.vec))]_vars

\* C4: Histogram::new(size, step, stats) yields no histogram when size = 0 or
\* step <= 0.
C4_NewRejectsBadConfig ==
    pc = "run" => (Len(hist.vec) >= 1 /\ hist.step > 0)

\* C5: the max_bar_len render computes is >= 1 for every histogram and width,
\* so top / max_bar_len never divides by zero.
C5_MaxBarLenPositive ==
    out # << >> => (out[1].layout.max_bar_len >= 1 /\ out[1].ok)

\* C6: the width_count render computes is the number of decimal digits of top
\* (1 when top <= 1), so no printed count is wider than width_count.
C6_CountWidthIsDigits ==
    out # << >> =>
        /\ out[1].layout.width_count = NumDigits(hist.top)
        /\ \A i \in 2..Len(out[1].text) :
               out[1].text[i].count_len <= out[1].layout.width_count

\* C7: for size >= 1 and step > 0 the buckets are contiguous and fixed:
\* bucket[i].start = min + i*step, bucket[i].end = bucket[i].start + step,
\* bucket[i].end = bucket[i+1].start, bucket[0].start = min and
\* bucket[size-1].end = max = min + size*step, in every reachable state.
C7_BucketsPartitionRange ==
    LET v == hist.vec
        n == Len(v)
    IN  /\ \A i \in 1..n :
               /\ v[i].start = f64_add(hist.min, f64_mul(usize_as_f64(i - 1), hist.step))
               /\ v[i].end = f64_add(v[i].start, hist.step)
        /\ \A i \in 1..(n - 1) : v[i].end = v[i + 1].start
        /\ v[1].start = hist.min
        /\ v[n].end = hist.max
        /\ hist.max = f64_add(hist.min, f64_mul(usize_as_f64(n), hist.step))

C9_RenderLines ==
    out # << >> =>
        LET o == out[1]
            lines == [i \in 1..(Len(o.text) - 1) |-> o.text[i + 1]]
        IN  /\ o.ok
            /\ Len(o.text) = 1 + Len(hist.vec)
            /\ o.text[1].divisor = Max(1, hist.top \div o.layout.max_bar_len)
            /\ \A i \in 1..Len(hist.vec) :
                   /\ lines[i].start = hist.vec[i].start
                   /\ lines[i].end = hist.vec[i].end
                   /\ lines[i].count = hist.vec[i].count
                   /\ lines[i].bar = hist.vec[i].count \div o.text[1].divisor
            /\ hist.top = 0 =>
                   /\ o.text[1].divisor = 1
                   /\ o.layout.width_count = 1
                   /\ \A i \in 1..Len(hist.vec) :
                          lines[i].count = 0 /\ lines[i].bar = 0

\* C10: no rendered bar is longer than max_bar_len glyphs: count / divisor <=
\* max_bar_len for every bucket, with divisor = max(1, top / max_bar_len).
C10_BarFitsWidth ==
    (out # << >> /\ out[1].ok) =>
        /\ out[1].text[1].divisor = Max(1, hist.top \div out[1].layout.max_bar_len)
        /\ \A i \in 2..Len(out[1].text) :
               out[1].text[i].bar <= out[1].layout.max_bar_len

=============================================================================
